---- MODULE Spec2Model ----
(***************************************************************************)
(* Storage (react/features/base/lib-jitsi-meet/native/Storage.js): a       *)
(* synchronous Web Storage facade over React Native's asynchronous         *)
(* AsyncStorage.  The model has one Storage instance, the backend it       *)
(* shares, the getAllKeys/multiGet promise chain the constructor starts,   *)
(* and the fire-and-forget setItem/removeItem calls in flight.             *)
(*                                                                         *)
(* JavaScript strings are sequences of one-character strings, so that      *)
(* startsWith, substring and concatenation are computed.  JavaScript       *)
(* values are records [t |-> type tag, v |-> text].                        *)
(***************************************************************************)
EXTENDS Integers, Sequences, FiniteSets, TLC

VARIABLES
    keyPrefix,  \* this._keyPrefix: Undefined or a string value
    items,      \* this._items: the Map, as its entries in insertion order
    task,       \* the constructor's promise chain: phase, keys, result
    disk,       \* the backend's content: a set of <<key, value>> pairs
    pending,    \* write-through calls issued and not yet settled, in issue order
    invoked,    \* how often each AsyncStorage primitive has been invoked
    mut,        \* per key: the caller's last mutation of it and when it happened
    last,       \* the last step taken: operation, arguments, return value
    nOps,       \* number of mutating caller operations so far
    hist        \* what a recording backend knows (see Init)

vars == <<keyPrefix, items, task, disk, pending, invoked, mut, last, nOps, hist>>

----------------------------------------------------------------------------
(* Bounds *)

\* Mutating caller operations (setItem, removeItem, clear) and later
\* constructions (new Storage) per behaviour.
MaxOps == 2

----------------------------------------------------------------------------
(* JavaScript values *)

Undefined == [t |-> "undefined", v |-> <<>>]
Null == [t |-> "null", v |-> <<>>]
Str(s) == [t |-> "string", v |-> s]
\* A number, carried as its decimal digits.
Num(s) == [t |-> "number", v |-> s]

\* String(value): the string form of a value.
String(x) ==
    CASE x.t = "undefined" -> Str(<<"u", "n", "d", "e", "f", "i", "n", "e", "d">>)
      [] x.t = "null" -> Str(<<"n", "u", "l", "l">>)
      [] OTHER -> Str(x.v)

\* typeof x !== 'undefined'
IsDefined(x) == x.t # "undefined"

\* s.startsWith(p)
startsWith(s, p) == Len(s) >= Len(p) /\ SubSeq(s, 1, Len(p)) = p

\* s.substring(n): the characters of s from zero-based index n on.
substring(s, n) == SubSeq(s, (IF n > Len(s) THEN Len(s) ELSE n) + 1, Len(s))

----------------------------------------------------------------------------
(* The inputs *)

KeyA == <<"a">>
KeyB == <<"b">>
\* The keys the caller uses.
Keys == {KeyA, KeyB}

New == Str(<<"n", "e", "w">>)
Seven == Num(<<"7">>)
\* The values the caller passes to setItem: a string and a non-string.
Values == {New, Seven}

PrefixP == Str(<<"p">>)
\* The constructor's argument: no prefix, or the prefix "p".
Prefixes == {Undefined, PrefixP}

Old == Str(<<"o", "l", "d">>)
Two == Str(<<"2">>)
Three == Str(<<"3">>)
Four == Str(<<"4">>)

\* Backend entries that may exist before construction: two under "p", one
\* under the unrelated prefix "q", one under the longer prefix "pq".
EntryPA == <<(<<"p", "a">>), Old>>
EntryPB == <<(<<"p", "b">>), Two>>
EntryQZ == <<(<<"q", "z">>), Three>>
EntryPQA == <<(<<"p", "q", "a">>), Four>>

InitDisks ==
    { {}, {EntryPA}, {EntryPA, EntryPB, EntryQZ}, {EntryPA, EntryPQA} }

\* The order in which the backend lists its keys.
BackendOrder ==
    << <<"p", "a">>, <<"p", "b">>, <<"q", "z">>, <<"p", "q", "a">> >>

\* Every key that can appear in items: the caller's, and "qa", which is
\* what is left of "pqa" without the prefix "p".
LogicalKeys == Keys \cup { <<"q", "a">> }

----------------------------------------------------------------------------
(* Map *)

\* Map.prototype.has
MapHas(m, k) == \E i \in 1..Len(m) : m[i].key = k

MapIndex(m, k) == CHOOSE i \in 1..Len(m) : m[i].key = k

\* Map.prototype.get
MapGet(m, k) == IF MapHas(m, k) THEN m[MapIndex(m, k)].value ELSE Undefined

\* Map.prototype.set: an existing key keeps its position, a new one is appended.
MapSet(m, k, v) ==
    IF MapHas(m, k)
    THEN [m EXCEPT ![MapIndex(m, k)].value = v]
    ELSE Append(m, [key |-> k, value |-> v])

\* Mutant of MapDelete: splice(indexOf(k), 1) on an array of entries, which
\* drops the last entry when k is not there.
MapDeleteSplice(m, k) ==
    IF MapHas(m, k) THEN SelectSeq(m, LAMBDA e : e.key # k)
    ELSE SubSeq(m, 1, Len(m) - 1)

\* Map.prototype.delete
MapDelete(m, k) == SelectSeq(m, LAMBDA e : e.key # k)

\* Map.prototype.size
MapSize(m) == Len(m)

\* Map.prototype.keys: the keys in insertion order.
MapKeys(m) == [i \in 1..Len(m) |-> m[i].key]

\* Mutant of IteratorNext: an index into an array that shrinks under it.
IteratorNextArray(before, after, i) == i + 1

\* The position a live Map iterator reads next, after it returned the entry
\* at position i of `before` and the loop body left the Map as `after`: the
\* entries deleted at or before i no longer count.
IteratorNext(before, after, i) ==
    i + 1 - Cardinality({j \in 1..i : ~MapHas(after, before[j].key)})

\* for (const name in iterator): the enumerable string-keyed properties of a
\* Map iterator object.  It has none of its own, and next and
\* Symbol.toStringTag of its prototype are not enumerable.
ForInNames(iterator) == << >>

----------------------------------------------------------------------------
(* AsyncStorage, as Storage uses it *)

\* A write-through call: issued, counted, and left to settle on its own.
AsyncStorageCall(this, op, k, v) ==
    [this EXCEPT !.pending = Append(@, [op |-> op, key |-> k, value |-> v]),
                 !.invoked[op] = @ + 1]

DiskHas(d, k) == \E e \in d : e[1] = k
DiskGet(d, k) == (CHOOSE e \in d : e[1] = k)[2]
DiskSet(d, k, v) == {e \in d : e[1] # k} \cup {<<k, v>>}
DiskRemove(d, k) == {e \in d : e[1] # k}

\* getAllKeys' answer: every key of the backend, in the backend's order.
DiskKeys(d) == SelectSeq(BackendOrder, LAMBDA k : DiskHas(d, k))

\* multiGet's answer for the requested keys.  What it holds for a key the
\* backend no longer has is the backend's choice: no pair at all, or the
\* pair [key, null].
RECURSIVE MultiGetAnswer(_, _, _)
MultiGetAnswer(d, ks, nullForMissing) ==
    IF ks = << >> THEN << >>
    ELSE LET k == Head(ks)
             rest == MultiGetAnswer(d, Tail(ks), nullForMissing)
         IN  IF DiskHas(d, k) THEN << <<k, DiskGet(d, k)>> >> \o rest
             ELSE IF nullForMissing THEN << <<k, Null>> >> \o rest
             ELSE rest

\* The effect of a settled write-through call on the backend.
DiskApply(d, call) ==
    IF call.op = "setItem" THEN DiskSet(d, call.key, call.value)
    ELSE DiskRemove(d, call.key)

----------------------------------------------------------------------------
(* Storage *)

\* The instance, as the methods below read and change it.
This == [keyPrefix |-> keyPrefix, items |-> items,
         pending |-> pending, invoked |-> invoked]

\* Mutant of getItem: a key the Map lacks is looked up in the backend.
getItemReadThrough(m, k) ==
    IF MapHas(m, k) THEN MapGet(m, k)
    ELSE IF IsDefined(keyPrefix) /\ DiskHas(disk, keyPrefix.v \o k)
         THEN DiskGet(disk, keyPrefix.v \o k)
         ELSE Null

\* getItem(key)
getItem(m, k) == IF MapHas(m, k) THEN MapGet(m, k) ELSE Null

\* get length()
length(m) == MapSize(m)

\* key(n): counts the names the for-in loop yields.
key(m, n) ==
    LET names == ForInNames(MapKeys(m))
    IN  IF n \in 0..(Len(names) - 1) THEN Str(names[n + 1]) ELSE Undefined

\* Mutant of removeItem: only the backend is told.
removeItemBackendOnly(this, k) ==
    IF ~IsDefined(this.keyPrefix) THEN this
    ELSE AsyncStorageCall(this, "removeItem",
                          String(this.keyPrefix).v \o k, Undefined)

\* Mutant of removeItem: the backend is told only if the key was there.
removeItemIfPresent(this, k) ==
    LET t == [this EXCEPT !.items = MapDelete(@, k)]
    IN  IF ~IsDefined(this.keyPrefix) \/ ~MapHas(this.items, k) THEN t
        ELSE AsyncStorageCall(t, "removeItem",
                              String(this.keyPrefix).v \o k, Undefined)

\* removeItem(key)
removeItem(this, k) ==
    LET t == [this EXCEPT !.items = MapDelete(@, k)]
    IN  IF ~IsDefined(this.keyPrefix) THEN t
        ELSE AsyncStorageCall(t, "removeItem",
                              String(this.keyPrefix).v \o k, Undefined)

\* Mutant of setItem: the value is stored as passed, without String().
setItemRaw(this, k, value) ==
    LET t == [this EXCEPT !.items = MapSet(@, k, value)]
    IN  IF ~IsDefined(this.keyPrefix) THEN t
        ELSE AsyncStorageCall(t, "setItem", String(this.keyPrefix).v \o k, value)

\* Mutant of setItem: the write-through is issued whatever the prefix is.
setItemAlwaysPersist(this, k, value) ==
    LET v == String(value)
        t == [this EXCEPT !.items = MapSet(@, k, v)]
    IN  AsyncStorageCall(t, "setItem", String(this.keyPrefix).v \o k, v)

\* setItem(key, value)
setItem(this, k, value) ==
    LET v == String(value)
        t == [this EXCEPT !.items = MapSet(@, k, v)]
    IN  IF ~IsDefined(this.keyPrefix) THEN t
        ELSE AsyncStorageCall(t, "setItem", String(this.keyPrefix).v \o k, v)

\* clear(): for (const key of this._items.keys()) this.removeItem(key),
\* from iterator position i on.
RECURSIVE clearFrom(_, _)
clearFrom(this, i) ==
    IF i > Len(this.items) THEN this
    ELSE LET t == removeItem(this, this.items[i].key)
         IN  clearFrom(t, IteratorNext(this.items, t.items, i))

clear(this) == clearFrom(this, 1)

\* Mutant of filterKeys: every key of the backend is loaded.
filterKeysAll(allKeys, prefix) == allKeys

\* The keys filter of getAllKeys' callback.
filterKeys(allKeys, prefix) ==
    SelectSeq(allKeys, LAMBDA k : startsWith(k, prefix.v))

\* Mutant of keyPrefixLength: the prefix is not stripped.
keyPrefixLengthZero(prefix) == 0

\* this._keyPrefix && this._keyPrefix.length, as substring reads it: the
\* empty prefix is falsy and stays "", which substring takes as 0.
keyPrefixLength(prefix) == IF prefix.v = << >> THEN 0 ELSE Len(prefix.v)

\* Mutant of mergeEntry: the loaded value overwrites.
mergeEntryOverwrite(m, k, value) == MapSet(m, k, value)

\* One round of the merge loop: the loaded value is kept only for a key the
\* Map does not have.
mergeEntry(m, k, value) == IF ~MapHas(m, k) THEN MapSet(m, k, value) ELSE m

\* The merge loop of multiGet's callback over result, from position i on.
RECURSIVE merge(_, _, _, _)
merge(m, result, i, n) ==
    IF i > Len(result) THEN m
    ELSE merge(mergeEntry(m, substring(result[i][1], n), result[i][2]),
               result, i + 1, n)

----------------------------------------------------------------------------
(* The state machine *)

NoMutation == [kind |-> "none", value |-> Undefined, merged |-> FALSE]

\* The merge loop has run.
Merged == task.phase = "Done" /\ ~task.failed

Step(op, k, value, n, ret) ==
    [op |-> op, key |-> k, value |-> value, n |-> n, ret |-> ret]

\* The arguments tried for key(n): every position of the Map and the first
\* one out of range on either side.
Positions == -1..length(items)

\* The state after new Storage(keyPrefix): an empty Map and, with a prefix,
\* getAllKeys already invoked.
Init ==
    /\ keyPrefix \in Prefixes
    /\ disk \in InitDisks
    /\ items = << >>
    /\ pending = << >>
    /\ task = [phase |-> IF IsDefined(keyPrefix) THEN "Enumerating" ELSE "NotStarted",
               keys |-> << >>, result |-> << >>,
               failed |-> FALSE]
    /\ invoked = [getAllKeys |-> IF IsDefined(keyPrefix) THEN 1 ELSE 0,
                  multiGet |-> 0, setItem |-> 0, removeItem |-> 0]
    /\ mut = [k \in LogicalKeys |-> NoMutation]
    /\ last = Step("constructor", << >>, keyPrefix, 0, Undefined)
    /\ nOps = 0
    /\ hist = [disk0 |-> disk,    \* the backend's content at construction
               written |-> {},    \* backend keys whose entry a setItem of an instance put there
               kept |-> {},       \* those written before construction and not touched since
               instances |-> 1,   \* instances constructed so far
               ahead |-> 0]       \* outstanding calls issued before multiGet, while it is outstanding

\* The instance after a method has run.
Becomes(t) ==
    /\ items' = t.items
    /\ pending' = t.pending
    /\ invoked' = t.invoked

\* The caller calls setItem(k, v).
SetItem(k, v) ==
    /\ nOps < MaxOps
    /\ Becomes(setItem(This, k, v))
    /\ mut' = [mut EXCEPT ![k] = [kind |-> "set", value |-> v, merged |-> Merged]]
    /\ last' = Step("setItem", k, v, 0, Undefined)
    /\ nOps' = nOps + 1
    /\ UNCHANGED <<keyPrefix, hist, task, disk>>

\* The caller calls removeItem(k).
RemoveItem(k) ==
    /\ nOps < MaxOps
    /\ Becomes(removeItem(This, k))
    /\ mut' = [mut EXCEPT ![k] = [kind |-> "remove", value |-> Undefined,
                                  merged |-> Merged]]
    /\ last' = Step("removeItem", k, Undefined, 0, Undefined)
    /\ nOps' = nOps + 1
    /\ UNCHANGED <<keyPrefix, hist, task, disk>>

\* The caller calls clear().
Clear ==
    /\ nOps < MaxOps
    /\ Becomes(clear(This))
    /\ mut' = [k \in LogicalKeys |->
                 IF MapHas(items, k)
                 THEN [kind |-> "clear", value |-> Undefined, merged |-> Merged]
                 ELSE mut[k]]
    /\ last' = Step("clear", << >>, Undefined, 0, Undefined)
    /\ nOps' = nOps + 1
    /\ UNCHANGED <<keyPrefix, hist, task, disk>>

\* The caller calls getItem(k).
GetItem(k) ==
    /\ last' = Step("getItem", k, Undefined, 0, getItem(items, k))
    /\ UNCHANGED <<keyPrefix, hist, items, task, disk, pending, invoked, mut, nOps>>

\* The caller calls key(n).
Key(n) ==
    /\ last' = Step("key", << >>, Undefined, n, key(items, n))
    /\ UNCHANGED <<keyPrefix, hist, items, task, disk, pending, invoked, mut, nOps>>

\* The caller reads length.
Length ==
    /\ last' = Step("length", << >>, Undefined, length(items), Undefined)
    /\ UNCHANGED <<keyPrefix, hist, items, task, disk, pending, invoked, mut, nOps>>

\* getAllKeys fails: its then-callback never runs and the chain ends.
GetAllKeysReject ==
    /\ task.phase = "Enumerating"
    /\ task' = [task EXCEPT !.phase = "Done", !.failed = TRUE]
    /\ last' = Step("getAllKeys.reject", << >>, Undefined, 0, Undefined)
    /\ UNCHANGED <<keyPrefix, hist, items, disk, pending, invoked, mut, nOps>>

\* getAllKeys is served from the backend's content and its callback runs:
\* filter the keys and invoke multiGet with them.  (The callback reads
\* nothing but the answer, so the answer and the callback are one step.)
GetAllKeysThen ==
    /\ task.phase = "Enumerating"
    /\ task' = [task EXCEPT !.phase = "Loading",
                            !.keys = filterKeys(DiskKeys(disk), keyPrefix)]
    /\ invoked' = [invoked EXCEPT !.multiGet = @ + 1]
    /\ last' = Step("getAllKeys.then", << >>, Undefined, 0, Undefined)
    /\ hist' = [hist EXCEPT !.ahead = Len(pending)]
    /\ UNCHANGED <<keyPrefix, items, disk, pending, mut, nOps>>

\* The backend serves multiGet from its content of that moment.
MultiGetAnswered(nullForMissing) ==
    /\ task.phase = "Loading"
    /\ task' = [task EXCEPT !.phase = "Loaded",
                            !.result = MultiGetAnswer(disk, task.keys, nullForMissing)]
    /\ last' = Step("multiGet.answer", << >>, Undefined, 0, Undefined)
    /\ hist' = [hist EXCEPT !.ahead = 0]
    /\ UNCHANGED <<keyPrefix, items, disk, pending, invoked, mut, nOps>>

\* Mutant of MultiGetReject: the callback is still handed what was read,
\* after the errors.
MultiGetRejectPartial ==
    /\ task.phase = "Loading"
    /\ task' = [task EXCEPT !.phase = "Loaded", !.failed = TRUE,
                            !.result = MultiGetAnswer(disk, task.keys, FALSE)]
    /\ last' = Step("multiGet.reject", << >>, Undefined, 0, Undefined)
    /\ hist' = [hist EXCEPT !.ahead = 0]
    /\ UNCHANGED <<keyPrefix, items, disk, pending, invoked, mut, nOps>>

\* multiGet fails: its then-callback never runs and the chain ends.
MultiGetReject ==
    /\ task.phase = "Loading"
    /\ task' = [task EXCEPT !.phase = "Done", !.failed = TRUE]
    /\ last' = Step("multiGet.reject", << >>, Undefined, 0, Undefined)
    /\ hist' = [hist EXCEPT !.ahead = 0]
    /\ UNCHANGED <<keyPrefix, items, disk, pending, invoked, mut, nOps>>

\* Mutant of MultiGetThen: the merge loop runs again on the kept result.
MultiGetThenAgain ==
    /\ task.phase \in {"Loaded", "Done"} /\ ~task.failed
    /\ invoked.multiGet = 1
    /\ items' = merge(items, task.result, 1, keyPrefixLength(keyPrefix))
    /\ task' = [task EXCEPT !.phase = "Done"]
    /\ last' = Step("multiGet.then", << >>, Undefined, 0, Undefined)
    /\ UNCHANGED <<keyPrefix, hist, disk, pending, invoked, mut, nOps>>

\* multiGet's callback: the merge loop.
MultiGetThen ==
    /\ task.phase = "Loaded"
    /\ items' = merge(items, task.result, 1, keyPrefixLength(keyPrefix))
    /\ task' = [task EXCEPT !.phase = "Done"]
    /\ last' = Step("multiGet.then", << >>, Undefined, 0, Undefined)
    /\ UNCHANGED <<keyPrefix, hist, disk, pending, invoked, mut, nOps>>

RemoveAt(s, i) == SubSeq(s, 1, i - 1) \o SubSeq(s, i + 1, Len(s))

\* The record of the backend once the i-th outstanding call has settled,
\* carried out (applied) or failed.
Settled(i, applied) ==
    LET call == pending[i]
    IN  [hist EXCEPT
           !.written = IF ~applied THEN @
                       ELSE IF call.op = "setItem" THEN @ \cup {call.key}
                       ELSE @ \ {call.key},
           !.kept = IF applied THEN @ \ {call.key} ELSE @,
           !.ahead = IF i <= @ THEN @ - 1 ELSE @]

\* Mutant of BackendReject: the optimistic write is rolled back.
BackendRejectRollback(i) ==
    /\ pending' = RemoveAt(pending, i)
    /\ items' = MapDelete(items, substring(pending[i].key, keyPrefixLength(keyPrefix)))
    /\ last' = Step("backend.reject", << >>, Undefined, 0, Undefined)
    /\ hist' = Settled(i, FALSE)
    /\ UNCHANGED <<keyPrefix, task, disk, invoked, mut, nOps>>

\* The backend carries out the i-th outstanding write-through call.
BackendApply(i) ==
    /\ disk' = DiskApply(disk, pending[i])
    /\ pending' = RemoveAt(pending, i)
    /\ last' = Step("backend.apply", << >>, Undefined, 0, Undefined)
    /\ hist' = Settled(i, TRUE)
    /\ UNCHANGED <<keyPrefix, items, task, invoked, mut, nOps>>

\* The i-th outstanding write-through call fails; nobody is told.
BackendReject(i) ==
    /\ pending' = RemoveAt(pending, i)
    /\ last' = Step("backend.reject", << >>, Undefined, 0, Undefined)
    /\ hist' = Settled(i, FALSE)
    /\ UNCHANGED <<keyPrefix, items, task, disk, invoked, mut, nOps>>

Next ==
    \/ \E k \in Keys, v \in Values : SetItem(k, v)
    \/ \E k \in Keys : RemoveItem(k)
    \/ Clear
    \/ \E k \in LogicalKeys : GetItem(k)
    \/ \E n \in Positions : Key(n)
    \/ Length
    \/ GetAllKeysReject
    \/ GetAllKeysThen
    \/ \E nullForMissing \in BOOLEAN : MultiGetAnswered(nullForMissing)
    \/ MultiGetReject
    \/ MultiGetThen
    \/ \E i \in 1..Len(pending) : BackendApply(i)
    \/ \E i \in 1..Len(pending) : BackendReject(i)

Spec == Init /\ [][Next]_vars

\* A later instance: new Storage(keyPrefix) again, with the same prefix on
\* the same backend.  The Map and the promise chain are new; the calls the
\* earlier instance left outstanding still settle.
Construct ==
    /\ IsDefined(keyPrefix)
    /\ nOps < MaxOps
    /\ items' = << >>
    /\ task' = [phase |-> "Enumerating", keys |-> << >>, result |-> << >>,
                failed |-> FALSE]
    /\ invoked' = [getAllKeys |-> 1, multiGet |-> 0, setItem |-> 0, removeItem |-> 0]
    /\ mut' = [k \in LogicalKeys |-> NoMutation]
    /\ last' = Step("constructor", << >>, keyPrefix, 0, Undefined)
    /\ nOps' = nOps + 1
    /\ hist' = [hist EXCEPT !.disk0 = disk, !.kept = hist.written,
                            !.instances = @ + 1, !.ahead = 0]
    /\ UNCHANGED <<keyPrefix, disk, pending>>

\* The steps that change the instance or the backend: Next without the
\* reads (getItem, key, length), which change nothing but the record of the
\* last step.
NextWrites ==
    \/ \E k \in Keys, v \in Values : SetItem(k, v)
    \/ \E k \in Keys : RemoveItem(k)
    \/ Clear
    \/ GetAllKeysReject
    \/ GetAllKeysThen
    \/ \E nullForMissing \in BOOLEAN : MultiGetAnswered(nullForMissing)
    \/ MultiGetReject
    \/ MultiGetThen
    \/ \E i \in 1..Len(pending) : BackendApply(i)
    \/ \E i \in 1..Len(pending) : BackendReject(i)

SpecWrites == Init /\ [][NextWrites]_vars

InitPrefixed == Init /\ IsDefined(keyPrefix)

\* Instances with a prefix, one after the other on one backend.
NextRestart ==
    \/ \E k \in Keys, v \in Values : SetItem(k, v)
    \/ \E k \in Keys : RemoveItem(k)
    \/ Clear
    \/ GetAllKeysReject
    \/ GetAllKeysThen
    \/ \E nullForMissing \in BOOLEAN : MultiGetAnswered(nullForMissing)
    \/ MultiGetReject
    \/ MultiGetThen
    \/ \E i \in 1..Len(pending) : BackendApply(i)
    \/ \E i \in 1..Len(pending) : BackendReject(i)
    \/ Construct

SpecRestart == InitPrefixed /\ [][NextRestart]_vars

\* A backend that never fails and serves its calls in the order they were
\* issued.  getAllKeys, issued by the constructor, is served before any
\* write-through call; multiGet after the calls issued before it and
\* before those issued after it.
BackendApplyFifo ==
    /\ pending # << >>
    /\ task.phase # "Enumerating"
    /\ task.phase = "Loading" => hist.ahead > 0
    /\ BackendApply(1)

MultiGetAnsweredFifo(nullForMissing) ==
    /\ hist.ahead = 0
    /\ MultiGetAnswered(nullForMissing)

NextFifo ==
    \/ \E k \in Keys, v \in Values : SetItem(k, v)
    \/ \E k \in Keys : RemoveItem(k)
    \/ Clear
    \/ GetAllKeysThen
    \/ \E nullForMissing \in BOOLEAN : MultiGetAnsweredFifo(nullForMissing)
    \/ MultiGetThen
    \/ BackendApplyFifo

SpecFifo == InitPrefixed /\ [][NextFifo]_vars

----------------------------------------------------------------------------
(* Properties *)

\* result holds the pair (k, value).
Loaded(k, value) == \E i \in 1..Len(task.result) : task.result[i] = <<k, value>>

\* The keys of items.
ItemKeys == {items[i].key : i \in 1..Len(items)}

\* C1: a key the caller last set before the merge loop ran still has the
\* caller's value (as a string) once the task is Done, whatever the backend
\* had loaded for it.
CallerWinsRace ==
    \A k \in Keys :
        (task.phase = "Done" /\ mut[k].kind = "set" /\ ~mut[k].merged)
            => getItem(items, k) = String(mut[k].value)

\* C1 witness: "pa" was loaded as "old", the caller had set "a" to "new"
\* before the merge, and after the merge "a" is "new".
CallerWinsRace_Witness ==
    /\ Merged
    /\ Loaded(<<"p", "a">>, Old)
    /\ mut[KeyA] = [kind |-> "set", value |-> New, merged |-> FALSE]
    /\ getItem(items, KeyA) = New

\* C2: a key the caller last removed (removeItem or clear) before the merge
\* loop ran reads null once the task is Done.
RemovedStaysRemoved ==
    \A k \in LogicalKeys :
        (Merged /\ mut[k].kind \in {"remove", "clear"} /\ ~mut[k].merged)
            => getItem(items, k) = Null

\* C3: right after setItem(k, v), getItem(k) is the string form of v.
WriteThenRead ==
    last.op = "setItem" => getItem(items, last.key) = String(last.value)

\* C3 witness: setItem("a", 7) while multiGet's answer waits to be merged and
\* a write-through call is outstanding; getItem("a") is "7".
WriteThenRead_Witness ==
    /\ last.op = "setItem" /\ last.key = KeyA /\ last.value = Seven
    /\ task.phase = "Loaded" /\ Loaded(<<"p", "a">>, Old)
    /\ pending # << >>
    /\ getItem(items, KeyA) = Str(<<"7">>)

\* C4: with no caller write, once the merge has run items is exactly the
\* backend's entries under the prefix, each with the prefix stripped, and no
\* value of an entry under another prefix is in items.
MergeLoadsPrefix ==
    (Merged /\ nOps = 0) =>
        /\ {<<items[i].key, items[i].value>> : i \in 1..Len(items)}
             = {<<substring(e[1], Len(keyPrefix.v)), e[2]>> :
                    e \in {d \in disk : startsWith(d[1], keyPrefix.v)}}
        /\ Cardinality(ItemKeys) = Len(items)
        /\ \A e \in disk :
             ~startsWith(e[1], keyPrefix.v) =>
                 /\ \A i \in 1..Len(items) : items[i].value # e[2]
                 /\ getItem(items, SubSeq(e[1], 2, Len(e[1]))) = Null

\* C4 witness: the backend has "pa", "pb" and "qz"; after the merge "a" and
\* "b" are there and "z" is not.
MergeLoadsPrefix_Witness ==
    /\ Merged /\ nOps = 0
    /\ disk = {EntryPA, EntryPB, EntryQZ}
    /\ getItem(items, KeyA) = Old /\ getItem(items, KeyB) = Two
    /\ getItem(items, <<"z">>) = Null

\* C5: right after clear(), length is 0 and getItem is null for every key.
ClearEmpties ==
    last.op = "clear" =>
        /\ length(items) = 0
        /\ \A k \in LogicalKeys \cup {<<"z">>} : getItem(items, k) = Null

\* C5 witness: clear() has just removed at least two keys.
ClearEmpties_Witness ==
    /\ last.op = "clear"
    /\ mut[KeyA].kind = "clear" /\ mut[KeyB].kind = "clear"
    /\ length(items) = 0

\* C6: key(n) is the n-th key in insertion order for 0 <= n < length and
\* undefined otherwise.
KeyIsNthKey ==
    last.op = "key" =>
        last.ret = IF last.n \in 0..(length(items) - 1)
                   THEN Str(MapKeys(items)[last.n + 1])
                   ELSE Undefined

\* C7: without a prefix no AsyncStorage primitive is ever invoked and no
\* task is started.
NoPrefixIsolation ==
    ~IsDefined(keyPrefix) =>
        /\ invoked = [getAllKeys |-> 0, multiGet |-> 0, setItem |-> 0,
                      removeItem |-> 0]
        /\ pending = << >>
        /\ task.phase = "NotStarted"

\* C7 witness: an instance without prefix after a setItem and a removeItem.
NoPrefixIsolation_Witness ==
    /\ ~IsDefined(keyPrefix)
    /\ mut[KeyA].kind = "set" /\ mut[KeyB].kind = "remove"
    /\ length(items) = 1

\* C8: length is the number of keys for which getItem is not null, and
\* every stored value is a string.
LengthCountsPresent ==
    /\ length(items) = Cardinality({k \in ItemKeys : getItem(items, k) # Null})
    /\ \A i \in 1..Len(items) : items[i].value.t = "string"

\* C9: right after removeItem(k), getItem(k) is null.
RemoveThenRead ==
    last.op = "removeItem" => getItem(items, last.key) = Null

\* C9 witness: "a" was merged from the backend and the caller's only
\* mutation, removeItem("a"), came after the merge: "a" was present.
RemoveThenRead_Witness ==
    /\ last.op = "removeItem" /\ last.key = KeyA
    /\ Merged /\ Loaded(<<"p", "a">>, Old)
    /\ nOps = 1 /\ mut[KeyA].merged
    /\ getItem(items, KeyA) = Null

\* C10: removeItem(k) of a key that is not in items leaves items as it was.
IdempotentRemove ==
    [][\A k \in Keys : (RemoveItem(k) /\ ~MapHas(items, k)) => items' = items]_vars

\* C10 witness: without prefix, setItem("a", ..) then removeItem("b"): "b"
\* was never there, and "a" still is.
IdempotentRemove_Witness ==
    /\ ~IsDefined(keyPrefix) /\ nOps = 2
    /\ last.op = "removeItem" /\ last.key = KeyB
    /\ mut[KeyA].kind = "set"
    /\ length(items) = 1 /\ MapHas(items, KeyA)


\* The steps the caller takes that change the Map.
CallerMutations == {"setItem", "removeItem", "clear"}

\* The keys the caller's last mutation of which is a setItem.
SetKeys(mu) == {k \in LogicalKeys : mu[k].kind = "set"}

\* m holds exactly what the caller's own operations produced.
CallerOnly(m, mu) ==
    /\ \A k \in LogicalKeys \cup {<<"z">>} :
         getItem(m, k) = IF k \in SetKeys(mu) THEN String(mu[k].value) ELSE Null
    /\ length(m) = Cardinality(SetKeys(mu))

\* C11: with a prefix, until the merge loop runs the Map holds only what the
\* caller has set: length counts the keys the caller set and getItem is null
\* for every other key, whatever the backend holds.
EmptyUntilMerge ==
    (IsDefined(keyPrefix) /\ task.phase \in {"Enumerating", "Loading", "Loaded"})
        => /\ \A k \in LogicalKeys \cup {<<"z">>} :
                k \notin SetKeys(mut) => getItem(items, k) = Null
           /\ length(items) = Cardinality(SetKeys(mut))

\* C11 witness: the backend holds "pa" and "pb", multiGet has been answered
\* with them, the caller has done nothing, and the Map is still empty.
EmptyUntilMerge_Witness ==
    /\ task.phase = "Loaded"
    /\ Loaded(<<"p", "a">>, Old) /\ Loaded(<<"p", "b">>, Two)
    /\ nOps = 0
    /\ length(items) = 0 /\ getItem(items, KeyA) = Null

\* C12: the step in which a write-through call fails changes nothing but the
\* set of outstanding calls: the Map, the backend and the task stay as they
\* are, and every key the caller last set still has its value.
FailedWriteIgnored ==
    [][last'.op = "backend.reject" =>
          /\ items' = items /\ disk' = disk /\ task' = task
          /\ invoked' = invoked
          /\ Len(pending') = Len(pending) - 1
          /\ \A k \in Keys :
               mut[k].kind = "set" => getItem(items', k) = String(mut[k].value)]_vars

\* C12 witness: setItem("a", "new") was the only write, its backend call
\* failed, the backend never got "pa", and getItem("a") is "new".
FailedWriteIgnored_Witness ==
    /\ last.op = "backend.reject"
    /\ nOps = 1 /\ mut[KeyA].kind = "set" /\ mut[KeyA].value = New
    /\ pending = << >> /\ ~DiskHas(disk, <<"p", "a">>)
    /\ getItem(items, KeyA) = New

PhaseRank(phase) ==
    CASE phase = "NotStarted" -> 0
      [] phase = "Enumerating" -> 1
      [] phase = "Loading" -> 2
      [] phase = "Loaded" -> 3
      [] phase = "Done" -> 4

\* C13: the task only moves forward; getAllKeys is invoked exactly once by
\* a prefixed instance; multiGet at most once, in the step that ends the
\* enumeration; and the only step not taken by the caller that changes the
\* Map is the one from Loaded to Done, so the merge runs at most once and
\* nothing but the caller changes the Map after Done.
OneShotTask ==
    [][/\ PhaseRank(task'.phase) >= PhaseRank(task.phase)
       /\ IsDefined(keyPrefix) => (invoked.getAllKeys = 1 /\ invoked'.getAllKeys = 1)
       /\ invoked'.multiGet <= 1
       /\ invoked'.multiGet # invoked.multiGet =>
              (task.phase = "Enumerating" /\ task'.phase = "Loading")
       /\ task'.phase \in {"Loading", "Loaded"} => invoked'.multiGet = 1
       /\ (items' # items /\ last'.op \notin CallerMutations) =>
              (task.phase = "Loaded" /\ task'.phase = "Done" /\ ~task'.failed)]_vars

\* C13 witness: the task is Done after a merge, getAllKeys and multiGet were
\* each invoked once, and the caller has since removed the merged key "a".
OneShotTask_Witness ==
    /\ Merged /\ invoked.getAllKeys = 1 /\ invoked.multiGet = 1
    /\ Loaded(<<"p", "a">>, Old)
    /\ last.op = "removeItem" /\ last.key = KeyA /\ mut[KeyA].merged
    /\ getItem(items, KeyA) = Null

\* C14: the merge step keeps every entry of the Map, in place and with its
\* value, and every entry it adds is a loaded pair, prefix stripped, whose
\* key the Map did not have.
AdditiveMerge ==
    [][last'.op = "multiGet.then" =>
          /\ Len(items') >= Len(items)
          /\ SubSeq(items', 1, Len(items)) = items
          /\ \A j \in (Len(items) + 1)..Len(items') :
               /\ ~MapHas(items, items'[j].key)
               /\ \E r \in 1..Len(task.result) :
                    /\ items'[j].key = substring(task.result[r][1], Len(keyPrefix.v))
                    /\ items'[j].value = task.result[r][2]]_vars

\* C14 witness: the merge has just run on "pa" and "pb" over a Map in which
\* the caller had set "a": "a" kept "new" and "b" was added.
AdditiveMerge_Witness ==
    /\ last.op = "multiGet.then"
    /\ Loaded(<<"p", "a">>, Old) /\ Loaded(<<"p", "b">>, Two)
    /\ mut[KeyA].kind = "set" /\ mut[KeyA].value = New
    /\ getItem(items, KeyA) = New /\ getItem(items, KeyB) = Two

\* C15: when getAllKeys or multiGet has failed the task is over without a
\* merge: the Map holds exactly what the caller's operations produced, the
\* task does nothing more, and no multiGet follows a failed getAllKeys.
FailureIsNoData ==
    [][/\ task'.failed => (task'.phase = "Done" /\ CallerOnly(items', mut'))
       /\ task.failed => (task' = task /\ invoked'.multiGet = invoked.multiGet)
       /\ last'.op = "getAllKeys.reject" => invoked'.multiGet = 0]_vars

\* C15 witness: the backend holds "pa", getAllKeys failed, no multiGet was
\* invoked, and the Map has only the caller's "b".
FailureIsNoData_Witness ==
    /\ task.failed /\ invoked.multiGet = 0
    /\ DiskHas(disk, <<"p", "a">>)
    /\ mut[KeyB].kind = "set" /\ mut[KeyB].value = New /\ mut[KeyA].kind = "none"
    /\ getItem(items, KeyA) = Null /\ getItem(items, KeyB) = New

\* The request removeItem(k) sends to the backend.
RemoveRequest(k) ==
    [op |-> "removeItem", key |-> keyPrefix.v \o k, value |-> Undefined]

\* C17: with a prefix, setItem(k, v) issues exactly one backend setItem for
\* (prefix+k, String(v)); removeItem(k) exactly one backend removeItem for
\* prefix+k, also for a key the Map lacks; clear() one backend removeItem
\* per key of the Map; getItem, key and length issue nothing and leave the
\* Map as it is.
WriteThroughRequests ==
    [][IsDefined(keyPrefix) =>
          /\ last'.op = "setItem" =>
               /\ pending' = Append(pending,
                      [op |-> "setItem", key |-> keyPrefix.v \o last'.key,
                       value |-> String(last'.value)])
               /\ invoked' = [invoked EXCEPT !.setItem = @ + 1]
          /\ last'.op = "removeItem" =>
               /\ pending' = Append(pending, RemoveRequest(last'.key))
               /\ invoked' = [invoked EXCEPT !.removeItem = @ + 1]
          /\ last'.op = "clear" =>
               /\ pending' = pending \o
                      [i \in 1..Len(items) |-> RemoveRequest(items[i].key)]
               /\ invoked' = [invoked EXCEPT !.removeItem = @ + Len(items)]
          /\ last'.op \in {"getItem", "key", "length"} =>
               /\ pending' = pending /\ invoked' = invoked /\ items' = items]_vars

\* C17 witness: removeItem("b") on a prefixed instance whose Map never had
\* "b" has left exactly one request, removeItem("pb").
WriteThroughRequests_Witness ==
    /\ IsDefined(keyPrefix) /\ task.phase = "Enumerating"
    /\ last.op = "removeItem" /\ last.key = KeyB /\ nOps = 1
    /\ pending = << [op |-> "removeItem", key |-> <<"p", "b">>, value |-> Undefined] >>
    /\ invoked.removeItem = 1


\* C16: every pair the merge step adds to the Map is one the backend held
\* under the prefix at construction, not one this instance's own setItem
\* put there (a pair loaded with null, which holds no value, aside).
NoOwnWriteReadBack ==
    [][last'.op = "multiGet.then" =>
          \A j \in (Len(items) + 1)..Len(items') :
              \/ items'[j].value = Null
              \/ <<keyPrefix.v \o items'[j].key, items'[j].value>> \in hist.disk0]_vars

PrefixPQ == Str(<<"p", "q">>)

\* What setItem(k, v) of a fresh instance with the given prefix asks the
\* backend to hold.
PersistedBy(prefix, k, v) ==
    LET fresh == [keyPrefix |-> prefix, items |-> << >>, pending |-> << >>,
                  invoked |-> [getAllKeys |-> 1, multiGet |-> 0,
                               setItem |-> 0, removeItem |-> 0]]
        call == setItem(fresh, k, v).pending[1]
    IN  <<call.key, call.value>>

\* The backend entries the Map's entries stand for.
ItemEntries == {<<keyPrefix.v \o items[i].key, items[i].value>> : i \in 1..Len(items)}

\* C18: a key the backend holds because an earlier instance's setItem(k, v)
\* was carried out, untouched in the backend since this instance was
\* constructed, and not touched by this instance's caller, reads String(v)
\* under k, without the prefix, once the merge has run.
RoundTrip ==
    \A k \in Keys :
        (Merged /\ mut[k].kind = "none" /\ (keyPrefix.v \o k) \in hist.kept)
            => /\ \E v \in Values :
                    /\ <<keyPrefix.v \o k, String(v)>> \in disk
                    /\ getItem(items, k) = String(v)
               /\ ~MapHas(items, keyPrefix.v \o k)

\* C18 witness: the second instance has merged "a" = "7", which the first
\* one had set and the backend had stored as "pa".
RoundTrip_Witness ==
    /\ hist.instances = 2 /\ Merged
    /\ mut[KeyA].kind = "none" /\ <<"p", "a">> \in hist.kept
    /\ <<(<<"p", "a">>), Str(<<"7">>)>> \in disk
    /\ getItem(items, KeyA) = Str(<<"7">>)

\* C19: an instance with prefix "p" never has in its Map the entry that an
\* instance with prefix "pq" persisted for its key "a".
NamespaceIsolation ==
    (keyPrefix = PrefixP /\ PersistedBy(PrefixPQ, KeyA, Four) \in disk)
        => PersistedBy(PrefixPQ, KeyA, Four) \notin ItemEntries

\* C20: under SpecFifo, once the merge has run and no write-through call is
\* outstanding, the backend's entries under the prefix are the Map's.
AgreeAtQuiescence ==
    (Merged /\ pending = << >>)
        => ItemEntries = {e \in disk : startsWith(e[1], keyPrefix.v)}

====
